---- MODULE Spec2Model ----
(***************************************************************************)
(* A model of fdt/item.py: the device tree items (Property, PropStrings,   *)
(* PropWords, PropBytes, Node), their containment operations (append,      *)
(* remove_*, merge), the path getter, the binary encoders (to_dtb) and the *)
(* raw value classifier (new_property).                                    *)
(*                                                                         *)
(* Representation.  Python objects live in two heaps: node[i] and prop[i]  *)
(* are the attribute records of the i-th Node / Property object created;   *)
(* an object reference is its index, None is 0.  A str or bytes value is   *)
(* the tuple of its character codes ("/" is <<47>>).  The elements of a    *)
(* property's data list are tagged so that a str never equals an int, as   *)
(* in Python: a str s is <<0>> \o s, an int n is <<1, n>>.                 *)
(***************************************************************************)
EXTENDS Integers, Sequences, FiniteSets, TLC

VARIABLES node, prop, ret, dtb, parsed, calls

vars == <<node, prop, ret, dtb, parsed, calls>>

(***************************************************************************)
(* Bounds of the model.                                                    *)
(***************************************************************************)
MaxItems == 2

MaxNodes == 6

MaxProps == 4

MaxLinks == 3

MaxCalls == 4

(***************************************************************************)
(* Values.                                                                 *)
(***************************************************************************)
None == 0

DTB_BEGIN_NODE == 1

DTB_END_NODE == 2

DTB_PROP == 3

Versions == {15, 16, 17}

pystr(s) == <<0>> \o s

pyint(n) == <<1, n>>

IsStr(e) == e[1] = 0

Chars(e) == Tail(e)

IntVal(e) == e[2]

\* string.printable: digits, letters, punctuation and whitespace
printable == (32..126) \cup (9..13)

Zeros(n) == [i \in 1..n |-> 0]

\* struct.pack('>I', v)
PackI(v) ==
  << (v \div 16777216) % 256, (v \div 65536) % 256, (v \div 256) % 256, v % 256 >>

\* struct.unpack('>I', b)[0]
UnpackI(b) == b[1] * 16777216 + b[2] * 65536 + b[3] * 256 + b[4]

RECURSIVE Flatten(_)
Flatten(ss) == IF ss = <<>> THEN <<>> ELSE Head(ss) \o Flatten(Tail(ss))

\* str.find(pat): the lowest 0-based index at which pat occurs, or -1
find(s, pat) ==
  LET hits == {i \in 0..(Len(s) - Len(pat)) : SubSeq(s, i + 1, i + Len(pat)) = pat}
  IN  IF hits = {} THEN -1 ELSE CHOOSE i \in hits : \A j \in hits : i <= j

\* bytes.split(b'\0'): the segments between the zero bytes, empty ones included
RECURSIVE split(_, _)
split(s, cur) ==
  IF s = <<>> THEN <<cur>>
  ELSE IF Head(s) = 0 THEN <<cur>> \o split(Tail(s), <<>>)
  ELSE split(Tail(s), Append(cur, Head(s)))

(***************************************************************************)
(* Property objects.  kind is the class; has_data says whether the object  *)
(* carries a data attribute (a plain Property has none until merge sets    *)
(* one on it).                                                             *)
(***************************************************************************)
Property(name) ==
  [name |-> name, parent |-> None, kind |-> "Property", has_data |-> FALSE, data |-> <<>>]

PropStrings(name, data) ==
  [name |-> name, parent |-> None, kind |-> "PropStrings", has_data |-> TRUE, data |-> data]

PropWords(name, data) ==
  [name |-> name, parent |-> None, kind |-> "PropWords", has_data |-> TRUE, data |-> data]

PropBytes(name, data) ==
  [name |-> name, parent |-> None, kind |-> "PropBytes", has_data |-> TRUE, data |-> data]

\* p == q for two property objects.  Every subclass overrides __eq__ and starts
\* with an isinstance test against itself, and Python tries the subclass's
\* method first when one operand's class derives from the other's, so two
\* properties of different classes are never equal.
PropEq(p, q) ==
  /\ p.kind = q.kind
  /\ p.name = q.name
  /\ p.kind # "Property" => p.data = q.data

(***************************************************************************)
(* to_dtb of the four property classes: (blob, strings, pos).              *)
(***************************************************************************)
\* a variant of strtab that inserts the name without looking for it
strtab_AlwaysInsert(name, strings) ==
  [strpos |-> Len(strings), strings |-> strings \o name \o <<0>>]

\* the lookup of a property name in the string table, and its insertion
strtab(name, strings) ==
  LET strpos == find(strings, name \o <<0>>)
  IN  IF strpos < 0
      THEN [strpos |-> Len(strings), strings |-> strings \o name \o <<0>>]
      ELSE [strpos |-> strpos, strings |-> strings]

Header3(len, strpos) == PackI(DTB_PROP) \o PackI(len) \o PackI(strpos)

Property_to_dtb(p, strings, pos, version) ==
  LET st == strtab(p.name, strings)
  IN  [blob |-> Header3(0, st.strpos), strings |-> st.strings, pos |-> pos + 12,
       strpos |-> st.strpos]

PropStrings_to_dtb(p, strings, pos, version) ==
  LET blob0    == Flatten([i \in 1..Len(p.data) |-> Chars(p.data[i]) \o <<0>>])
      blob_len == Len(blob0)
      blob1    == IF version < 16 /\ (pos + 12) % 8 # 0
                  THEN Zeros(8 - ((pos + 12) % 8)) \o blob0
                  ELSE blob0
      blob2    == IF blob_len % 4 # 0
                  THEN blob1 \o Zeros(4 - (blob_len % 4))
                  ELSE blob1
      st       == strtab(p.name, strings)
      blob     == Header3(blob_len, st.strpos) \o blob2
  IN  [blob |-> blob, strings |-> st.strings, pos |-> pos + Len(blob),
       strpos |-> st.strpos]

PropWords_to_dtb(p, strings, pos, version) ==
  LET st   == strtab(p.name, strings)
      blob == Header3(Len(p.data) * 4, st.strpos)
                \o Flatten([i \in 1..Len(p.data) |-> PackI(IntVal(p.data[i]))])
  IN  [blob |-> blob, strings |-> st.strings, pos |-> pos + Len(blob),
       strpos |-> st.strpos]

\* a variant of PropBytes.to_dtb that leaves the value unpadded
PropBytes_to_dtb_Unpadded(p, strings, pos, version) ==
  LET st   == strtab(p.name, strings)
      blob == Header3(Len(p.data), st.strpos)
                \o [i \in 1..Len(p.data) |-> IntVal(p.data[i])]
  IN  [blob |-> blob, strings |-> st.strings, pos |-> pos + Len(blob),
       strpos |-> st.strpos]

PropBytes_to_dtb(p, strings, pos, version) ==
  LET st    == strtab(p.name, strings)
      blob0 == Header3(Len(p.data), st.strpos)
                 \o [i \in 1..Len(p.data) |-> IntVal(p.data[i])]
      blob  == IF Len(blob0) % 4 # 0
               THEN blob0 \o Zeros(4 - (Len(blob0) % 4))
               ELSE blob0
  IN  [blob |-> blob, strings |-> st.strings, pos |-> pos + Len(blob),
       strpos |-> st.strpos]

\* prop.to_dtb(strings, pos, version), dispatched on the class of prop
prop_to_dtb(p, strings, pos, version) ==
  CASE p.kind = "Property"    -> Property_to_dtb(p, strings, pos, version)
    [] p.kind = "PropStrings" -> PropStrings_to_dtb(p, strings, pos, version)
    [] p.kind = "PropWords"   -> PropWords_to_dtb(p, strings, pos, version)
    [] p.kind = "PropBytes"   -> PropBytes_to_dtb(p, strings, pos, version)

(***************************************************************************)
(* new_property: classification of a raw value.                            *)
(***************************************************************************)
\* misc.is_string: non-empty, and every byte printable ASCII or a terminator
is_string(raw_value) ==
  /\ Len(raw_value) > 0
  /\ \A i \in 1..Len(raw_value) : raw_value[i] = 0 \/ raw_value[i] \in printable

\* new_property with the word test tried before the string test
new_property_WordsFirst(name, raw_value) ==
  IF Len(raw_value) # 0 /\ Len(raw_value) % 4 = 0
  THEN PropWords(name, [i \in 1..(Len(raw_value) \div 4)
                            |-> pyint(UnpackI(SubSeq(raw_value, 4 * i - 3, 4 * i)))])
  ELSE IF is_string(raw_value)
  THEN PropStrings(name, [i \in 1..Len(SelectSeq(split(raw_value, <<>>), LAMBDA st : st # <<>>))
                            |-> pystr(SelectSeq(split(raw_value, <<>>), LAMBDA st : st # <<>>)[i])])
  ELSE IF Len(raw_value) # 0
  THEN PropBytes(name, [i \in 1..Len(raw_value) |-> pyint(raw_value[i])])
  ELSE Property(name)

new_property(name, raw_value) ==
  IF is_string(raw_value)
  THEN PropStrings(name, [i \in 1..Len(SelectSeq(split(raw_value, <<>>), LAMBDA st : st # <<>>))
                            |-> pystr(SelectSeq(split(raw_value, <<>>), LAMBDA st : st # <<>>)[i])])
  ELSE IF Len(raw_value) # 0 /\ Len(raw_value) % 4 = 0
  THEN PropWords(name, [i \in 1..(Len(raw_value) \div 4)
                            |-> pyint(UnpackI(SubSeq(raw_value, 4 * i - 3, 4 * i)))])
  ELSE IF Len(raw_value) # 0
  THEN PropBytes(name, [i \in 1..Len(raw_value) |-> pyint(raw_value[i])])
  ELSE Property(name)

(***************************************************************************)
(* Node objects and the heap.  A heap H is [node |-> ..., prop |-> ...,    *)
(* err |-> ...]: the two object tables and the exception that the          *)
(* call being evaluated has raised so far ("" for none).                   *)
(***************************************************************************)
Node(name) == [name |-> name, parent |-> None, props |-> <<>>, nodes |-> <<>>]

Heap(nd, pr) == [node |-> nd, prop |-> pr, err |-> ""]

Raise(H, e) == [H EXCEPT !.err = e]

Range(s) == {s[i] : i \in 1..Len(s)}

Min(S) == CHOOSE i \in S : \A j \in S : i <= j

\* Node.get_property: the first property of that name, or None
get_property(H, self, name) ==
  LET ps   == H.node[self].props
      hits == {i \in 1..Len(ps) : H.prop[ps[i]].name = name}
  IN  IF hits = {} THEN None ELSE ps[Min(hits)]

\* Node.get_subnode: the first child of that name, or None
get_subnode(H, self, name) ==
  LET ns   == H.node[self].nodes
      hits == {i \in 1..Len(ns) : H.node[ns[i]].name = name}
  IN  IF hits = {} THEN None ELSE ns[Min(hits)]

\* x in list, for a list of properties: any(x is e or x == e for e in list)
PropIn(H, p, ps) ==
  \E i \in 1..Len(ps) : ps[i] = p \/ PropEq(H.prop[p], H.prop[ps[i]])

\* Node.__eq__, and x in list for a list of nodes
RECURSIVE NodeEq(_, _, _)
NodeIn(H, n, ns) ==
  \E i \in 1..Len(ns) : ns[i] = n \/ NodeEq(H, n, ns[i])

NodeEq(H, a, b) ==
  /\ H.node[a].name = H.node[b].name
  /\ Len(H.node[a].props) = Len(H.node[b].props)
  /\ Len(H.node[a].nodes) = Len(H.node[b].nodes)
  /\ \A i \in 1..Len(H.node[a].props) : PropIn(H, H.node[a].props[i], H.node[b].props)
  /\ \A i \in 1..Len(H.node[a].nodes) : NodeIn(H, H.node[a].nodes[i], H.node[b].nodes)

\* list.remove(x): drops the first element e with e is x or e == x
RemoveAt(s, i) == SubSeq(s, 1, i - 1) \o SubSeq(s, i + 1, Len(s))

\* Node.remove_property
remove_property(H, self, name) ==
  LET item == get_property(H, self, name)
      ps   == H.node[self].props
  IN  IF item = None THEN H
      ELSE LET i == Min({j \in 1..Len(ps) :
                           ps[j] = item \/ PropEq(H.prop[ps[j]], H.prop[item])})
           IN  [H EXCEPT !.node[self].props = RemoveAt(ps, i)]

\* Node.remove_subnode
remove_subnode(H, self, name) ==
  LET item == get_subnode(H, self, name)
      ns   == H.node[self].nodes
  IN  IF item = None THEN H
      ELSE LET i == Min({j \in 1..Len(ns) : ns[j] = item \/ NodeEq(H, ns[j], item)})
           IN  [H EXCEPT !.node[self].nodes = RemoveAt(ns, i)]

\* a variant of append_property without the test for a property of that name
append_property_NoNameTest(H, self, p) ==
  [H EXCEPT !.prop[p].parent = self,
            !.node[self].props = Append(@, p)]

\* a variant of append_property that attaches the parent before testing the name
append_property_ParentFirst(H, self, p) ==
  IF get_property(H, self, H.prop[p].name) # None
  THEN Raise([H EXCEPT !.prop[p].parent = self], "Exception: property already exists")
  ELSE [H EXCEPT !.prop[p].parent = self,
                 !.node[self].props = Append(@, p)]

\* Node.append, the branch taken for a Property
append_property(H, self, p) ==
  IF get_property(H, self, H.prop[p].name) # None
  THEN Raise(H, "Exception: property already exists")
  ELSE [H EXCEPT !.prop[p].parent = self,
                 !.node[self].props = Append(@, p)]

\* Node.append, the branch taken for a Node
append_node(H, self, n) ==
  IF get_subnode(H, self, H.node[n].name) # None
  THEN Raise(H, "Exception: node already exists")
  ELSE IF n = self
  THEN Raise(H, "Exception: append the same node")
  ELSE [H EXCEPT !.node[n].parent = self,
                 !.node[self].nodes = Append(@, n)]

(***************************************************************************)
(* copy and deepcopy.                                                      *)
(***************************************************************************)
\* prop.copy(): the new, detached object, or the exception that its
\* constructor raises when it validates the values handed to it
\* (PropStrings.append asserts a str, PropWords.append compares with ints,
\* bytearray() takes ints below 256)
copy(p) ==
  CASE p.kind = "Property" ->
         [err |-> "", obj |-> Property(p.name)]
    [] p.kind = "PropStrings" ->
         IF \A i \in 1..Len(p.data) : IsStr(p.data[i])
         THEN [err |-> "", obj |-> PropStrings(p.name, p.data)]
         ELSE [err |-> "AssertionError", obj |-> p]
    [] p.kind = "PropWords" ->
         IF \A i \in 1..Len(p.data) : ~IsStr(p.data[i])
         THEN [err |-> "", obj |-> PropWords(p.name, p.data)]
         ELSE [err |-> "TypeError", obj |-> p]
    [] p.kind = "PropBytes" ->
         IF \E i \in 1..Len(p.data) : IsStr(p.data[i])
         THEN [err |-> "TypeError", obj |-> p]
         ELSE IF \E i \in 1..Len(p.data) : IntVal(p.data[i]) > 255
         THEN [err |-> "ValueError", obj |-> p]
         ELSE [err |-> "", obj |-> PropBytes(p.name, p.data)]

\* the nodes deepcopy reaches from the nodes S: every attribute is followed,
\* the parent references, the child lists, and the parent references of the
\* properties held
RECURSIVE Reach(_, _)
Reach(H, S) ==
  LET held == UNION {Range(H.node[n].props) : n \in S}
      next == (S \cup {H.node[n].parent : n \in S}
                 \cup UNION {Range(H.node[n].nodes) : n \in S}
                 \cup {H.prop[q].parent : q \in held}) \ {None}
  IN  IF next = S THEN S ELSE Reach(H, next)

\* the position of x among the elements of S in ascending order
Rank(S, x) == Cardinality({y \in S : y <= x})

Nth(S, k) == CHOOSE x \in S : Rank(S, x) = k

\* deepcopy(n): every object reached from n is created anew, with the
\* references between them kept; copy is the new object that stands for n
deepcopy(H, n) ==
  LET N       == Reach(H, {n})
      P       == UNION {Range(H.node[m].props) : m \in N}
      newN(m) == IF m = None THEN None ELSE Len(H.node) + Rank(N, m)
      newP(q) == Len(H.prop) + Rank(P, q)
      cloneN(m) == [name   |-> H.node[m].name,
                    parent |-> newN(H.node[m].parent),
                    props  |-> [i \in 1..Len(H.node[m].props) |-> newP(H.node[m].props[i])],
                    nodes  |-> [i \in 1..Len(H.node[m].nodes) |-> newN(H.node[m].nodes[i])]]
      cloneP(q) == [H.prop[q] EXCEPT !.parent = newN(@)]
  IN  [H    |-> [H EXCEPT !.node = @ \o [k \in 1..Cardinality(N) |-> cloneN(Nth(N, k))],
                          !.prop = @ \o [k \in 1..Cardinality(P) |-> cloneP(Nth(P, k))]],
       copy |-> newN(n)]

(***************************************************************************)
(* Node.merge.  The two for loops read the lists of the other node while   *)
(* the heap changes, as Python's list iterator does: by position, against  *)
(* the current length.  An exception ends the call and leaves the changes  *)
(* made so far.                                                            *)
(***************************************************************************)
\* get_property_index / get_subnode_index: 1-based, 0 for None
get_property_index(H, self, name) ==
  LET ps   == H.node[self].props
      hits == {i \in 1..Len(ps) : H.prop[ps[i]].name = name}
  IN  IF hits = {} THEN 0 ELSE Min(hits)

get_subnode_index(H, self, name) ==
  LET ns   == H.node[self].nodes
      hits == {i \in 1..Len(ns) : H.node[ns[i]].name = name}
  IN  IF hits = {} THEN 0 ELSE Min(hits)

\* the body of "for prop in node.props"
merge_prop(H, self, p, replace) ==
  LET index == get_property_index(H, self, H.prop[p].name)
  IN  IF index = 0
      THEN LET c == copy(H.prop[p])
           IN  IF c.err # "" THEN Raise(H, c.err)
               ELSE append_property([H EXCEPT !.prop = Append(@, c.obj)],
                                    self, Len(H.prop) + 1)
      ELSE IF PropIn(H, p, H.node[self].props)
      THEN H
      ELSE IF replace
      THEN IF H.prop[p].has_data
           THEN [H EXCEPT !.prop[H.node[self].props[index]].data = H.prop[p].data,
                          !.prop[H.node[self].props[index]].has_data = TRUE]
           ELSE Raise(H, "AttributeError")
      ELSE H

RECURSIVE merge(_, _, _, _)
RECURSIVE merge_props(_, _, _, _, _)
RECURSIVE merge_nodes(_, _, _, _, _)

\* the body of "for sub_node in node.nodes"
merge_node(H, self, sub_node, replace) ==
  LET index == get_subnode_index(H, self, H.node[sub_node].name)
  IN  IF index = 0
      THEN LET d == deepcopy(H, sub_node)
           IN  [d.H EXCEPT !.node[self].nodes = Append(@, d.copy)]
      ELSE IF NodeIn(H, sub_node, H.node[self].nodes)
      THEN H
      ELSE merge(H, H.node[self].nodes[index], sub_node, replace)

merge_props(H, self, other, replace, i) ==
  IF H.err # "" \/ i > Len(H.node[other].props) THEN H
  ELSE merge_props(merge_prop(H, self, H.node[other].props[i], replace),
                   self, other, replace, i + 1)

merge_nodes(H, self, other, replace, i) ==
  IF H.err # "" \/ i > Len(H.node[other].nodes) THEN H
  ELSE merge_nodes(merge_node(H, self, H.node[other].nodes[i], replace),
                   self, other, replace, i + 1)

merge(H, self, other, replace) ==
  LET H1 == merge_props(H, self, other, replace, 1)
  IN  IF H1.err # "" THEN H1 ELSE merge_nodes(H1, self, other, replace, 1)

(***************************************************************************)
(* BaseItem.path.  The while loop follows parent references; on a cycle of *)
(* parents that holds no node named '/' it never ends, which the walk      *)
(* reports as "hang" once it has made more steps than there are nodes.     *)
(***************************************************************************)
ROOT == <<47>>

RECURSIVE PathWalk(_, _, _, _)
PathWalk(H, n, path, fuel) ==
  IF n = None THEN [hang |-> FALSE, path |-> path]
  ELSE IF H.node[n].name = ROOT THEN [hang |-> FALSE, path |-> path]
  ELSE IF fuel = 0 THEN [hang |-> TRUE, path |-> <<>>]
  ELSE PathWalk(H, H.node[n].parent, Append(path, H.node[n].name), fuel - 1)

Reverse(s) == [i \in 1..Len(s) |-> s[Len(s) + 1 - i]]

\* sep.join(names)
RECURSIVE join(_, _)
join(sep, names) ==
  IF names = <<>> THEN <<>>
  ELSE IF Len(names) = 1 THEN names[1]
  ELSE names[1] \o sep \o join(sep, Tail(names))

\* a variant of path that joins the collected names without reversing them
path_NotReversed(H, parent) ==
  LET w == PathWalk(H, parent, <<>>, Len(H.node))
  IN  IF w.hang THEN [hang |-> TRUE, val |-> <<>>]
      ELSE [hang |-> FALSE, val |-> <<47>> \o join(<<47>>, w.path)]

\* item.path for an item whose parent reference is parent
path(H, parent) ==
  LET w == PathWalk(H, parent, <<>>, Len(H.node))
  IN  IF w.hang THEN [hang |-> TRUE, val |-> <<>>]
      ELSE [hang |-> FALSE, val |-> <<47>> \o join(<<47>>, Reverse(w.path))]

(***************************************************************************)
(* What the last call returned: ret for the calls on the tree, dtb for a   *)
(* to_dtb call, parsed for a new_property call.  A call resets the other   *)
(* two.                                                                    *)
(***************************************************************************)
NoRet == [op |-> "", err |-> "", self |-> 0, arg |-> 0, flag |-> FALSE, val |-> <<>>]

NoDtb == [called |-> FALSE, self |-> 0, version |-> 0, err |-> "",
          blob |-> <<>>, strings |-> <<>>, pos |-> 0, recs |-> <<>>]

NoParsed == [called |-> FALSE, prop |-> Property(<<>>)]

(***************************************************************************)
(* Round trip of one property: to_dtb, then new_property on the bytes      *)
(* after the 12-byte header.                                               *)
(***************************************************************************)
SeqsUpTo(S, n) == UNION {[1..k -> S] : k \in 0..n}

PropName == <<112>>

StringValues == {pystr(<<97>>), pystr(<<98, 99>>)}

WordValues == {pyint(0), pyint(1), pyint(1633837824), pyint(2130706433)}

ByteValues == {pyint(1), pyint(97)}

RoundTripProps ==
  {Property(PropName)}
    \cup {PropStrings(PropName, d) : d \in SeqsUpTo(StringValues, MaxItems)}
    \cup {PropWords(PropName, d) : d \in SeqsUpTo(WordValues, MaxItems)}
    \cup {PropBytes(PropName, d) : d \in SeqsUpTo(ByteValues, MaxItems + 2)}

InitRoundTrip ==
  /\ node = <<>>
  /\ \E p \in RoundTripProps : prop = <<p>>
  /\ ret = NoRet
  /\ dtb = NoDtb
  /\ parsed = NoParsed
  /\ calls = 0

\* blob, strings, pos = prop.to_dtb('', 0, version)
EncodeProperty(p, version) ==
  /\ p \in DOMAIN prop
  /\ LET r == prop_to_dtb(prop[p], <<>>, 0, version)
     IN  dtb' = [called |-> TRUE, self |-> p, version |-> version, err |-> "",
                 blob |-> r.blob, strings |-> r.strings, pos |-> r.pos,
                 recs |-> <<>>]
  /\ parsed' = NoParsed
  /\ UNCHANGED <<node, prop, ret>>

\* new_property(prop.name, blob[12:])
ClassifyPayload ==
  /\ dtb.called
  /\ dtb.self \in DOMAIN prop
  /\ parsed' = [called |-> TRUE,
                prop |-> new_property(prop[dtb.self].name,
                                      SubSeq(dtb.blob, 13, Len(dtb.blob)))]
  /\ UNCHANGED <<node, prop, ret, dtb>>

NextRoundTrip ==
  \/ \E p \in DOMAIN prop, version \in Versions :
       EncodeProperty(p, version) /\ UNCHANGED calls
  \/ ClassifyPayload /\ UNCHANGED calls

SpecRoundTrip == InitRoundTrip /\ [][NextRoundTrip]_vars

\* the payload that a word list is encoded to: its words, big-endian
WordsPayload(data) == Flatten([i \in 1..Len(data) |-> PackI(IntVal(data[i]))])

\* the properties whose encoding the classification takes back to them
Invertible(p) ==
  CASE p.kind = "Property"    -> TRUE
    [] p.kind = "PropStrings" -> Len(p.data) > 0
    [] p.kind = "PropWords"   -> Len(p.data) > 0 /\ ~is_string(WordsPayload(p.data))
    [] p.kind = "PropBytes"   -> FALSE

\* C1, as claimed: for a property of any variant and any contents, the
\* payload emitted after the 12-byte header for a version from 16 on is
\* classified back to a property equal to it.
C1_RoundTripAny ==
  (parsed.called /\ dtb.version >= 16) => PropEq(parsed.prop, prop[dtb.self])

\* C1, amended: for a version from 16 on, the payload emitted after the
\* 12-byte header is classified back to a property equal to the encoded one
\* exactly when that one is empty, a string list with at least one string, or
\* a word list with at least one word whose payload has a byte that is
\* neither printable nor zero; a byte list, an empty list and a word list of
\* printable or zero bytes come back as another variant.
C1_RoundTripInvertible ==
  (parsed.called /\ dtb.version >= 16) =>
     (PropEq(parsed.prop, prop[dtb.self]) <=> Invertible(prop[dtb.self]))

\* a list of two strings was encoded for version 16 or 17 and classified back
C1_Witness ==
  /\ parsed.called
  /\ dtb.version >= 16
  /\ prop[dtb.self].kind = "PropStrings"
  /\ Len(prop[dtb.self].data) = 2
  /\ PropEq(parsed.prop, prop[dtb.self])

(***************************************************************************)
(* Containment, read from the property and child lists alone.              *)
(***************************************************************************)
\* the nodes whose child list holds node n
NodeContainers(n) == {c \in DOMAIN node : n \in Range(node[c].nodes)}

\* the nodes whose property list holds property p
PropContainers(p) == {c \in DOMAIN node : p \in Range(node[c].props)}

\* the nodes reachable from the set S through one or more child lists
RECURSIVE Below(_, _)
Below(S, fuel) ==
  LET next == UNION {Range(node[n].nodes) : n \in S}
  IN  IF fuel = 0 \/ next = {} THEN {} ELSE next \cup Below(next, fuel - 1)

Descendants(n) == Below({n}, Len(node))

\* following parent references from node n ends at None
RECURSIVE ParentsEnd(_, _)
ParentsEnd(n, fuel) ==
  \/ n = None
  \/ fuel > 0 /\ ParentsEnd(node[n].parent, fuel - 1)

\* the containers above node n, nearest first, when every node on the way up
\* has exactly one container until a node without container ends the chain
RECURSIVE ChainAbove(_, _)
ChainAbove(n, fuel) ==
  IF NodeContainers(n) = {} THEN [ok |-> TRUE, chain |-> <<>>]
  ELSE IF fuel = 0 \/ Cardinality(NodeContainers(n)) # 1 THEN [ok |-> FALSE, chain |-> <<>>]
  ELSE LET c == CHOOSE x \in NodeContainers(n) : TRUE
           r == ChainAbove(c, fuel - 1)
       IN  [ok |-> r.ok, chain |-> <<c>> \o r.chain]

\* node n sits in a tree whose root is named '/'
InRootedTree(n) ==
  LET r == ChainAbove(n, Len(node))
  IN  /\ r.ok
      /\ node[IF r.chain = <<>> THEN n ELSE r.chain[Len(r.chain)]].name = ROOT

\* the names of the containers of n, outermost first, below the nearest
\* container named '/'
RECURSIVE NamesBelowRoot(_)
NamesBelowRoot(chain) ==
  IF chain = <<>> THEN <<>>
  ELSE IF node[Head(chain)].name = ROOT THEN <<>>
  ELSE NamesBelowRoot(Tail(chain)) \o <<node[Head(chain)].name>>

(***************************************************************************)
(* The calls on the tree.                                                  *)
(***************************************************************************)
\* self.append(item), item a Property (isprop) or a Node
Node_append(self, isprop, item) ==
  /\ self \in DOMAIN node
  /\ item \in (IF isprop THEN DOMAIN prop ELSE DOMAIN node)
  /\ LET H == IF isprop THEN append_property(Heap(node, prop), self, item)
                        ELSE append_node(Heap(node, prop), self, item)
     IN  /\ node' = H.node
         /\ prop' = H.prop
         /\ ret' = [NoRet EXCEPT !.op = "append", !.err = H.err]
  /\ dtb' = NoDtb
  /\ parsed' = NoParsed

\* item.path, item a Property (isprop) or a Node
BaseItem_path(isprop, item) ==
  /\ item \in (IF isprop THEN DOMAIN prop ELSE DOMAIN node)
  /\ LET r == path(Heap(node, prop),
                   IF isprop THEN prop[item].parent ELSE node[item].parent)
     IN  ret' = [op |-> "path", err |-> IF r.hang THEN "hang" ELSE "",
                 self |-> item, arg |-> 0, flag |-> isprop, val |-> r.val]
  /\ dtb' = NoDtb
  /\ parsed' = NoParsed
  /\ UNCHANGED <<node, prop>>

\* no node below n, or n itself, lies below itself
AcyclicBelow(n) == \A m \in {n} \cup Descendants(n) : m \notin Descendants(m)

\* self.remove_property(name)
Node_remove_property(self, name) ==
  /\ self \in DOMAIN node
  /\ LET H == remove_property(Heap(node, prop), self, name)
     IN  /\ node' = H.node
         /\ prop' = H.prop
         /\ ret' = [NoRet EXCEPT !.op = "remove_property", !.err = H.err]
  /\ dtb' = NoDtb
  /\ parsed' = NoParsed

\* self.remove_subnode(name)
Node_remove_subnode(self, name) ==
  /\ self \in DOMAIN node
  /\ LET H == remove_subnode(Heap(node, prop), self, name)
     IN  /\ node' = H.node
         /\ prop' = H.prop
         /\ ret' = [NoRet EXCEPT !.op = "remove_subnode", !.err = H.err]
  /\ dtb' = NoDtb
  /\ parsed' = NoParsed

\* self.merge(other, replace).  The call is made on nodes whose subtrees
\* hold no cycle (on a cycle __eq__ and merge recurse until Python's
\* recursion limit), and when the heap has room for the objects it creates.
Node_merge(self, other, replace) ==
  /\ self \in DOMAIN node
  /\ other \in DOMAIN node
  /\ AcyclicBelow(self)
  /\ AcyclicBelow(other)
  /\ LET H == merge(Heap(node, prop), self, other, replace)
     IN  /\ Len(H.node) <= MaxNodes
         /\ Len(H.prop) <= MaxProps
         /\ node' = H.node
         /\ prop' = H.prop
         /\ ret' = [NoRet EXCEPT !.op = "merge", !.err = H.err]
  /\ dtb' = NoDtb
  /\ parsed' = NoParsed

(***************************************************************************)
(* Building trees by append and asking for paths.                          *)
(***************************************************************************)
\* the number of items held in the property and child lists of all nodes
Links(nd) == LET RECURSIVE Sum(_)
                 Sum(i) == IF i = 0 THEN 0
                           ELSE Len(nd[i].props) + Len(nd[i].nodes) + Sum(i - 1)
             IN  Sum(Len(nd))

\* the node names of the objects a run starts with: '/', 'a', 'b' and a
\* second '/'
BuildCasts == {<<ROOT, <<97>>, <<98>>, ROOT>>}

InitBuild ==
  /\ \E c \in BuildCasts : node = [i \in 1..Len(c) |-> Node(c[i])]
  /\ prop = <<Property(PropName), Property(PropName)>>
  /\ ret = NoRet
  /\ dtb = NoDtb
  /\ parsed = NoParsed
  /\ calls = 0

NextBuild ==
  \/ \E self \in DOMAIN node, isprop \in BOOLEAN, item \in 1..(Len(node) + Len(prop)) :
       Links(node) < MaxLinks /\ Node_append(self, isprop, item) /\ UNCHANGED calls
  \/ \E isprop \in BOOLEAN, item \in 1..(Len(node) + Len(prop)) :
       BaseItem_path(isprop, item) /\ UNCHANGED calls

SpecBuild == InitBuild /\ [][NextBuild]_vars

DuplicateNameErrors ==
  {"Exception: property already exists", "Exception: node already exists"}

\* the list of self that item would join holds an item of the same name
HoldsName(self, isprop, item) ==
  IF isprop
  THEN \E q \in Range(node[self].props) : prop[q].name = prop[item].name
  ELSE \E m \in Range(node[self].nodes) : node[m].name = node[item].name

(***************************************************************************)
(* Claims about append and path.                                           *)
(***************************************************************************)
\* C6: an append of a property or node whose name is already held by the
\* receiving node raises the duplicate-name exception and changes neither a
\* property list, nor a child list, nor a parent reference.
C6_DuplicateRejectionAtomic ==
  [][\A self \in DOMAIN node, isprop \in BOOLEAN :
       \A item \in (IF isprop THEN DOMAIN prop ELSE DOMAIN node) :
          (HoldsName(self, isprop, item) /\ Node_append(self, isprop, item))
             => (ret'.err \in DuplicateNameErrors /\ node' = node /\ prop' = prop)]_vars

\* a duplicate property name was rejected by a node that holds properties
C6_Witness ==
  /\ ret.op = "append"
  /\ ret.err = "Exception: property already exists"
  /\ \E n \in DOMAIN node : node[n].props # <<>>

\* C8, as claimed: in a tree rooted at '/', a node's path is '/' followed by
\* the names of its ancestors below the root and then its own name; the root
\* reports '/'.
C8_PathEndsInOwnName ==
  (ret.op = "path" /\ ~ret.flag /\ InRootedTree(ret.self)) =>
     LET chain == ChainAbove(ret.self, Len(node)).chain
     IN  /\ ret.err = ""
         /\ ret.val = IF chain = <<>> THEN ROOT
                      ELSE <<47>> \o join(<<47>>, NamesBelowRoot(chain)
                                                    \o <<node[ret.self].name>>)

\* C8, amended: in a tree rooted at '/', a node's path is '/' followed by the
\* slash-joined names, outermost first, of its ancestors below the nearest
\* ancestor named '/'; the node's own name is not part of it.
C8_PathOfAncestors ==
  (ret.op = "path" /\ ~ret.flag /\ InRootedTree(ret.self)) =>
     LET chain == ChainAbove(ret.self, Len(node)).chain
     IN  /\ ret.err = ""
         /\ ret.val = <<47>> \o join(<<47>>, NamesBelowRoot(chain))

\* the node three levels below the root '/' reported the path '/a/b'
C8_Witness ==
  /\ ret.op = "path" /\ ~ret.flag /\ InRootedTree(ret.self)
  /\ Len(ChainAbove(ret.self, Len(node)).chain) = 3
  /\ ret.val = <<47, 97, 47, 98>>

\* C10: no node is reachable from itself through child lists, and following
\* parent references upward from any item ends at an item without parent.
C10_ContainmentAcyclic ==
  /\ \A n \in DOMAIN node : n \notin Descendants(n)
  /\ \A n \in DOMAIN node : ParentsEnd(node[n].parent, Len(node))
  /\ \A p \in DOMAIN prop : ParentsEnd(prop[p].parent, Len(node))

(***************************************************************************)
(* Trees under append, removal and merge, in any order and on any of the   *)
(* objects the run starts with.                                            *)
(***************************************************************************)
\* one node named '/', two nodes named 'a'
Cast == <<ROOT, <<97>>, <<97>>>>

\* the pairs of properties named 'p' a run starts with
PropCasts ==
  { <<PropWords(PropName, <<pyint(1)>>), PropWords(PropName, <<pyint(2)>>)>>,
    <<PropWords(PropName, <<pyint(1)>>), Property(PropName)>> }

Init ==
  /\ node = [i \in 1..Len(Cast) |-> Node(Cast[i])]
  /\ prop \in PropCasts
  /\ ret = NoRet
  /\ dtb = NoDtb
  /\ parsed = NoParsed
  /\ calls = 0

\* one more call, while the run has calls left
Call == calls < MaxCalls /\ calls' = calls + 1

Next ==
  \/ \E self \in 1..Len(Cast), item \in 1..Len(Cast) :
       Call /\ Node_append(self, FALSE, item)
  \/ \E self \in 1..Len(Cast), item \in 1..2 :
       Call /\ Node_append(self, TRUE, item)
  \/ \E self \in 1..Len(Cast) : Call /\ Node_remove_property(self, PropName)
  \/ \E self \in 1..Len(Cast), name \in Range(Cast) :
       Call /\ Node_remove_subnode(self, name)
  \/ \E self \in 1..Len(Cast), other \in 1..Len(Cast), replace \in BOOLEAN :
       Call /\ Node_merge(self, other, replace)

Spec == Init /\ [][Next]_vars

(***************************************************************************)
(* Two trees built by append from detached items, and merged.  Node 1 and  *)
(* node 2 are the roots A and B, both named '/'; node 3 and node 4, both   *)
(* named 'a', become children of A and of B; property 1 goes into A's      *)
(* tree, property 2 into B's.                                              *)
(***************************************************************************)
TreeCast == <<ROOT, ROOT, <<97>>, <<97>>>>

TreePropCasts ==
  { <<PropWords(PropName, <<pyint(1)>>), PropWords(PropName, <<pyint(2)>>)>>,
    <<PropWords(PropName, <<pyint(1)>>), Property(PropName)>>,
    <<Property(PropName), PropWords(PropName, <<pyint(1)>>)>>,
    <<PropWords(PropName, <<pyint(1)>>), PropStrings(PropName, <<pystr(<<97>>)>>)>>,
    <<PropBytes(PropName, <<pyint(1)>>), PropWords(PropName, <<pyint(1)>>)>> }

InitTree ==
  /\ node = [i \in 1..Len(TreeCast) |-> Node(TreeCast[i])]
  /\ prop \in TreePropCasts
  /\ ret = NoRet
  /\ dtb = NoDtb
  /\ parsed = NoParsed
  /\ calls = 0

\* the item has never been attached
Detached(isprop, item) ==
  IF isprop THEN prop[item].parent = None ELSE node[item].parent = None

NextTree ==
  \/ \E t \in {1, 2} :
       Detached(FALSE, t + 2) /\ Node_append(t, FALSE, t + 2) /\ UNCHANGED calls
  \/ \E t \in {1, 2} : \E self \in {t, t + 2} :
       Detached(TRUE, t) /\ Node_append(self, TRUE, t) /\ UNCHANGED calls
  \/ \E self \in {1, 2}, other \in {1, 2}, replace \in BOOLEAN :
       Node_merge(self, other, replace) /\ UNCHANGED calls

SpecTree == InitTree /\ [][NextTree]_vars

(***************************************************************************)
(* Claims about merge and about the invariants of the containers.          *)
(***************************************************************************)
\* the names in a list of properties / of nodes are pairwise different
UniquePropNames(ps) ==
  \A i, j \in 1..Len(ps) : prop[ps[i]].name = prop[ps[j]].name => i = j

UniqueNodeNames(ns) ==
  \A i, j \in 1..Len(ns) : node[ns[i]].name = node[ns[j]].name => i = j

\* C5: no node holds two properties of the same name, and no node holds two
\* child nodes of the same name.
C5_NamesUnique ==
  \A n \in DOMAIN node :
    UniquePropNames(node[n].props) /\ UniqueNodeNames(node[n].nodes)

\* a merge gave a node of the cast a copied property and a copied subtree
C5_Witness ==
  /\ ret.op = "merge"
  /\ ret.err = ""
  /\ \E n \in 1..Len(Cast) :
       /\ \E q \in Range(node[n].props) : q > 2
       /\ \E m \in Range(node[n].nodes) : m > Len(Cast)

\* the pairs of nodes that a merge of b into a matches: a and b, and the
\* children of the same name of any matched pair
RECURSIVE Matched(_, _, _)
Matched(a, b, fuel) ==
  {<<a, b>>} \cup
    (IF fuel = 0 THEN {}
     ELSE UNION { IF node[x].name = node[y].name THEN Matched(x, y, fuel - 1) ELSE {}
                  : x \in Range(node[a].nodes), y \in Range(node[b].nodes) })

\* C2: when a merge of B into A meets, in A or in a matched child of A at
\* any depth, a property whose name is also held on B's side by an unequal
\* property, then with replace A's property afterwards carries the values of
\* B's property, and without replace it carries the values it had before.
C2_MergeConflictResolution ==
  [][\A self \in {1, 2}, other \in {1, 2}, replace \in BOOLEAN :
       (self # other /\ Node_merge(self, other, replace)) =>
          \A m \in Matched(self, other, Len(node)) :
            \A q \in Range(node[m[1]].props), r \in Range(node[m[2]].props) :
              (prop[q].name = prop[r].name /\ ~PropEq(prop[q], prop[r])) =>
                 prop'[q].data = IF replace THEN prop[r].data ELSE prop[q].data]_vars

\* C7: a merge completes without raising an error.
C7_MergeNeverRaises == ret.op = "merge" => ret.err = ""

\* C9: every property in a node's property list and every node in a node's
\* child list has that node as its parent, and no item is held by two nodes.
C9_BackReferences ==
  /\ \A n \in DOMAIN node :
       /\ \A q \in Range(node[n].props) : prop[q].parent = n
       /\ \A m \in Range(node[n].nodes) : node[m].parent = n
  /\ \A q \in DOMAIN prop : Cardinality(PropContainers(q)) <= 1
  /\ \A m \in DOMAIN node : Cardinality(NodeContainers(m)) <= 1

(***************************************************************************)
(* Node.to_dtb.  D is the state threaded through the walk: the blob so     *)
(* far, the string table, the byte offset, and recs, the list of what was  *)
(* emitted: for every begin-node field, property record and end tag the    *)
(* item, the offset at which it starts, the length of the bytes it added,  *)
(* and for a property the name offset its to_dtb computed.                 *)
(***************************************************************************)
Rec(kind, id, pos, len, strpos) ==
  [kind |-> kind, id |-> id, pos |-> pos, len |-> len, strpos |-> strpos]

\* the body of "for prop in self._props"
emit_prop(H, D, q, version) ==
  LET r == prop_to_dtb(H.prop[q], D.strings, D.pos, version)
  IN  [blob |-> D.blob \o r.blob, strings |-> r.strings, pos |-> r.pos,
       recs |-> Append(D.recs, Rec("prop", q, D.pos, Len(r.blob), r.strpos))]

RECURSIVE emit_props(_, _, _, _, _)
emit_props(H, D, ps, version, i) ==
  IF i > Len(ps) THEN D
  ELSE emit_props(H, emit_prop(H, D, ps[i], version), ps, version, i + 1)

RECURSIVE Node_to_dtb(_, _, _, _)
RECURSIVE emit_nodes(_, _, _, _, _)
emit_nodes(H, D, ns, version, i) ==
  IF i > Len(ns) THEN D
  ELSE emit_nodes(H, Node_to_dtb(H, D, ns[i], version), ns, version, i + 1)

Node_to_dtb(H, D, n, version) ==
  LET blob0 == IF H.node[n].name = ROOT
               THEN PackI(DTB_BEGIN_NODE) \o PackI(0)
               ELSE PackI(DTB_BEGIN_NODE) \o H.node[n].name \o <<0>>
      blob  == IF Len(blob0) % 4 # 0
               THEN blob0 \o Zeros(4 - (Len(blob0) % 4))
               ELSE blob0
      D0    == [blob |-> D.blob \o blob, strings |-> D.strings, pos |-> D.pos + Len(blob),
                recs |-> Append(D.recs, Rec("begin", n, D.pos, Len(blob), 0))]
      D1    == emit_props(H, D0, H.node[n].props, version, 1)
      D2    == emit_nodes(H, D1, H.node[n].nodes, version, 1)
  IN  [blob |-> D2.blob \o PackI(DTB_END_NODE), strings |-> D2.strings, pos |-> D2.pos + 4,
       recs |-> Append(D2.recs, Rec("end", n, D2.pos, 4, 0))]

\* blob, strings, pos = self.to_dtb('', 0, version); on a cycle of children
\* the recursion ends in Python's RecursionError
Node_to_dtb_call(self, version) ==
  /\ self \in DOMAIN node
  /\ IF AcyclicBelow(self)
     THEN LET D == Node_to_dtb(Heap(node, prop),
                               [blob |-> <<>>, strings |-> <<>>, pos |-> 0, recs |-> <<>>],
                               self, version)
          IN  dtb' = [called |-> TRUE, self |-> self, version |-> version, err |-> "",
                      blob |-> D.blob, strings |-> D.strings, pos |-> D.pos,
                      recs |-> D.recs]
     ELSE dtb' = [NoDtb EXCEPT !.called = TRUE, !.self = self, !.version = version,
                               !.err = "RecursionError"]
  /\ ret' = NoRet
  /\ parsed' = NoParsed
  /\ UNCHANGED <<node, prop>>

(***************************************************************************)
(* Trees built by append from detached items, and encoded.  The nodes are  *)
(* '/', 'a' and 'abc'; the properties are named 'ab', 'b' and 'b'.         *)
(***************************************************************************)
DtbCast == <<ROOT, <<97>>, <<97, 98, 99>>>>

DtbPropCasts ==
  { <<p1, p2, PropStrings(<<98>>, <<pystr(<<97>>), pystr(<<98, 99>>)>>)>> :
      p1 \in {PropStrings(<<97, 98>>, <<pystr(<<97>>)>>), PropBytes(<<97, 98>>, <<pyint(1)>>)},
      p2 \in {Property(<<98>>), PropWords(<<98>>, <<pyint(1)>>)} }

InitDtb ==
  /\ node = [i \in 1..Len(DtbCast) |-> Node(DtbCast[i])]
  /\ prop \in DtbPropCasts
  /\ ret = NoRet
  /\ dtb = NoDtb
  /\ parsed = NoParsed
  /\ calls = 0

NextDtb ==
  \/ \E self \in DOMAIN node, item \in DOMAIN node \ {1} :
       Detached(FALSE, item) /\ Node_append(self, FALSE, item) /\ UNCHANGED calls
  \/ \E self \in DOMAIN node, item \in DOMAIN prop :
       Detached(TRUE, item) /\ Node_append(self, TRUE, item) /\ UNCHANGED calls
  \/ \E self \in DOMAIN node, version \in Versions :
       Node_to_dtb_call(self, version) /\ UNCHANGED calls

SpecDtb == InitDtb /\ [][NextDtb]_vars

(***************************************************************************)
(* Claims about the encoding of a tree.                                    *)
(***************************************************************************)
\* the records of the properties emitted by the last to_dtb call of a node
PropRecs == {i \in 1..Len(dtb.recs) : dtb.recs[i].kind = "prop"}

NameOfRec(i) == prop[dtb.recs[i].id].name

\* the offsets at which name stands in the table as an entry: at offset 0 or
\* directly after a terminator, and followed by a terminator
EntryOffsets(strings, name) ==
  {o \in 0..(Len(strings) - Len(name) - 1) :
     /\ o = 0 \/ strings[o] = 0
     /\ SubSeq(strings, o + 1, o + Len(name) + 1) = name \o <<0>>}

\* the bytes of the table from offset o up to the next terminator
ReadAt(strings, o) ==
  LET ends == {e \in (o + 1)..Len(strings) : strings[e] = 0}
  IN  SubSeq(strings, o + 1, Min(ends) - 1)

\* C3, as claimed: every property name stands exactly once as an entry in the
\* final string table, and every record of a property carries the offset of
\* the entry of its name.
C3_OneEntryPerName ==
  (dtb.called /\ dtb.err = "") =>
     \A i \in PropRecs :
        /\ Cardinality(EntryOffsets(dtb.strings, NameOfRec(i))) = 1
        /\ dtb.recs[i].strpos \in EntryOffsets(dtb.strings, NameOfRec(i))

\* C3, amended: every property name stands at most once as an entry in the
\* final string table; the offset in a record is the first place of the
\* final table at which the name followed by a terminator occurs, so the
\* name is read back from it and records of the same name carry the same
\* offset; that place is the entry of the name when there is one, and
\* otherwise lies inside an entry of which the name is a proper suffix.
C3_NameFoundAtOffset ==
  (dtb.called /\ dtb.err = "") =>
     \A i \in PropRecs :
        LET name == NameOfRec(i)
            o    == dtb.recs[i].strpos
            at   == EntryOffsets(dtb.strings, name)
        IN  /\ Cardinality(at) <= 1
            /\ o = find(dtb.strings, name \o <<0>>)
            /\ ReadAt(dtb.strings, o) = name
            /\ \A j \in PropRecs : NameOfRec(j) = name => dtb.recs[j].strpos = o
            /\ at # {} => at = {o}
            /\ at = {} => /\ o > 0
                          /\ dtb.strings[o] # 0

\* two properties named 'b' were encoded after one named 'ab', and share an
\* offset inside the entry 'ab'
C3_Witness ==
  /\ dtb.called /\ dtb.err = ""
  /\ \E i, j \in PropRecs :
       /\ i # j
       /\ NameOfRec(i) = NameOfRec(j)
       /\ dtb.recs[i].strpos = 1
       /\ EntryOffsets(dtb.strings, NameOfRec(i)) = {}

\* C4: in a walk that starts at offset 0, for every format version, every
\* property record and every begin-node field has a length that is a
\* multiple of 4, and the running offset is a multiple of 4 before and after
\* every record.
C4_Aligned ==
  (dtb.called /\ dtb.err = "" /\ dtb.recs # <<>>) =>
     /\ \A i \in 1..Len(dtb.recs) :
          /\ dtb.recs[i].len % 4 = 0
          /\ dtb.recs[i].pos % 4 = 0
          /\ (dtb.recs[i].pos + dtb.recs[i].len) % 4 = 0
     /\ dtb.pos % 4 = 0
     /\ dtb.pos = Len(dtb.blob)

\* a walk for a version below 16 emitted a string property whose value was
\* moved to an 8-byte boundary, and a byte property that needed padding
C4_Witness ==
  /\ dtb.called /\ dtb.err = "" /\ dtb.version < 16
  /\ \E i \in PropRecs :
       /\ prop[dtb.recs[i].id].kind = "PropStrings"
       /\ (dtb.recs[i].pos + 12) % 8 # 0
  /\ \E i \in PropRecs : prop[dtb.recs[i].id].kind = "PropBytes"

====
